---- MODULE Spec2Model ----
(***************************************************************************)
(* A model of CNF.py: the first-order-logic CNF converter.                 *)
(*                                                                         *)
(* Representation.  A Python expression tuple ("and", A, B) is the TLA+    *)
(* tuple <<"and", A, B>>; Python's expr[i] is expr[i+1] here.  A Python    *)
(* string that the program builds or compares (a variable, a Skolem term)  *)
(* is a sequence of one-character strings, so that f"c{n}" and             *)
(* ",".join(args) are computed character by character.  Node tags and      *)
(* predicate names are never built by the program and stay TLA+ strings.   *)
(***************************************************************************)
EXTENDS Integers, Sequences, FiniteSets

VARIABLES
    pc,        \* the position of the caller: which function returned last
    orig,      \* the expression the caller started from
    prev,      \* the argument of the call that returned last
    expr,      \* the value of the last call (to_cnf's local variable expr)
    arg,       \* the other arguments of the call that returned last
    counter,   \* the next value of itertools.count()  (CNF.py line 8)
    names      \* every string new_const / new_func returned, in call order

vars == <<pc, orig, prev, expr, arg, counter, names>>

---------------------------------------------------------------------------
(* Strings *)

\* One decimal digit as a character.
Digit(d) ==
    CASE d = 0 -> "0" [] d = 1 -> "1" [] d = 2 -> "2" [] d = 3 -> "3"
      [] d = 4 -> "4" [] d = 5 -> "5" [] d = 6 -> "6" [] d = 7 -> "7"
      [] d = 8 -> "8" [] d = 9 -> "9"

\* str(n) of a natural number, as the f-strings of lines 11 and 14 format it.
RECURSIVE str(_)
str(n) ==
    IF n < 10 THEN <<Digit(n)>> ELSE str(n \div 10) \o <<Digit(n % 10)>>

\* ",".join(args)
RECURSIVE join(_)
join(args) ==
    IF args = <<>> THEN <<>>
    ELSE IF Len(args) = 1 THEN args[1]
    ELSE args[1] \o <<",">> \o join(Tail(args))

---------------------------------------------------------------------------
(* The Skolem-name generator.  The counter is passed in and the advanced   *)
(* counter is returned with the name.                                      *)

\* A generator that formats the counter without advancing it.
new_const_peek(c) ==
    [val |-> <<"c">> \o str(c), c |-> c]

new_const(c) ==
    [val |-> <<"c">> \o str(c), c |-> c + 1]

new_func(args, c) ==
    [val |-> <<"f">> \o str(c) \o <<"(">> \o join(args) \o <<")">>,
     c |-> c + 1]

---------------------------------------------------------------------------
(* Expressions *)

pred1(name, a) == <<"pred", name, <<a>>>>
pred2(name, a, b) == <<"pred", name, <<a, b>>>>

\* remove_implications that leaves the operand of a negation alone.
RECURSIVE remove_implications_skipnot(_)
remove_implications_skipnot(e) ==
    LET t == e[1] IN
    IF t \in {"forall", "exists"} THEN
        <<t, e[2], remove_implications_skipnot(e[3])>>
    ELSE IF t \in {"and", "or"} THEN
        <<t, remove_implications_skipnot(e[2]), remove_implications_skipnot(e[3])>>
    ELSE IF t = "implies" THEN
        <<"or", <<"not", remove_implications_skipnot(e[2])>>,
                remove_implications_skipnot(e[3])>>
    ELSE IF t = "iff" THEN
        LET P == remove_implications_skipnot(e[2])
            Q == remove_implications_skipnot(e[3])
        IN <<"and", <<"or", <<"not", P>>, Q>>, <<"or", <<"not", Q>>, P>>>>
    ELSE e

RECURSIVE remove_implications(_)
remove_implications(e) ==
    LET t == e[1] IN
    IF t \in {"forall", "exists"} THEN
        <<t, e[2], remove_implications(e[3])>>
    ELSE IF t \in {"and", "or"} THEN
        <<t, remove_implications(e[2]), remove_implications(e[3])>>
    ELSE IF t = "implies" THEN
        LET P == remove_implications(e[2])
            Q == remove_implications(e[3])
        IN <<"or", <<"not", P>>, Q>>
    ELSE IF t = "iff" THEN
        LET P == remove_implications(e[2])
            Q == remove_implications(e[3])
        IN <<"and", <<"or", <<"not", P>>, Q>>, <<"or", <<"not", Q>>, P>>>>
    ELSE IF t = "not" THEN
        <<"not", remove_implications(e[2])>>
    ELSE e

\* nnf whose case for a negated disjunction builds a disjunction again.
RECURSIVE nnf_samedual(_)
nnf_samedual(e) ==
    LET t == e[1] IN
    IF t = "not" THEN
        LET inner == e[2] IN
        IF inner[1] = "not" THEN nnf_samedual(inner[2])
        ELSE IF inner[1] = "and" THEN
            <<"or", nnf_samedual(<<"not", inner[2]>>),
                    nnf_samedual(<<"not", inner[3]>>)>>
        ELSE IF inner[1] = "or" THEN
            <<"or", nnf_samedual(<<"not", inner[2]>>),
                    nnf_samedual(<<"not", inner[3]>>)>>
        ELSE IF inner[1] = "forall" THEN
            <<"exists", inner[2], nnf_samedual(<<"not", inner[3]>>)>>
        ELSE IF inner[1] = "exists" THEN
            <<"forall", inner[2], nnf_samedual(<<"not", inner[3]>>)>>
        ELSE <<"not", nnf_samedual(inner)>>
    ELSE IF t \in {"and", "or"} THEN
        <<t, nnf_samedual(e[2]), nnf_samedual(e[3])>>
    ELSE IF t \in {"forall", "exists"} THEN
        <<t, e[2], nnf_samedual(e[3])>>
    ELSE e

\* nnf whose De Morgan case for a conjunction does not recurse.
RECURSIVE nnf_shallow(_)
nnf_shallow(e) ==
    LET t == e[1] IN
    IF t = "not" THEN
        LET inner == e[2] IN
        IF inner[1] = "not" THEN nnf_shallow(inner[2])
        ELSE IF inner[1] = "and" THEN
            <<"or", <<"not", inner[2]>>, <<"not", inner[3]>>>>
        ELSE IF inner[1] = "or" THEN
            <<"and", nnf_shallow(<<"not", inner[2]>>), nnf_shallow(<<"not", inner[3]>>)>>
        ELSE IF inner[1] = "forall" THEN
            <<"exists", inner[2], nnf_shallow(<<"not", inner[3]>>)>>
        ELSE IF inner[1] = "exists" THEN
            <<"forall", inner[2], nnf_shallow(<<"not", inner[3]>>)>>
        ELSE <<"not", nnf_shallow(inner)>>
    ELSE IF t \in {"and", "or"} THEN
        <<t, nnf_shallow(e[2]), nnf_shallow(e[3])>>
    ELSE IF t \in {"forall", "exists"} THEN
        <<t, e[2], nnf_shallow(e[3])>>
    ELSE e

RECURSIVE nnf(_)
nnf(e) ==
    LET t == e[1] IN
    IF t = "not" THEN
        LET inner == e[2] IN
        IF inner[1] = "not" THEN nnf(inner[2])
        ELSE IF inner[1] = "and" THEN
            <<"or", nnf(<<"not", inner[2]>>), nnf(<<"not", inner[3]>>)>>
        ELSE IF inner[1] = "or" THEN
            <<"and", nnf(<<"not", inner[2]>>), nnf(<<"not", inner[3]>>)>>
        ELSE IF inner[1] = "forall" THEN
            <<"exists", inner[2], nnf(<<"not", inner[3]>>)>>
        ELSE IF inner[1] = "exists" THEN
            <<"forall", inner[2], nnf(<<"not", inner[3]>>)>>
        ELSE <<"not", nnf(inner)>>
    ELSE IF t \in {"and", "or"} THEN
        <<t, nnf(e[2]), nnf(e[3])>>
    ELSE IF t \in {"forall", "exists"} THEN
        <<t, e[2], nnf(e[3])>>
    ELSE e

\* subst that stops at a quantifier binding the substituted variable.
RECURSIVE subst_scoped(_, _, _)
subst_scoped(e, var, value) ==
    LET t == e[1] IN
    IF t = "pred" THEN
        <<"pred", e[2],
          [i \in 1..Len(e[3]) |-> IF e[3][i] = var THEN value ELSE e[3][i]]>>
    ELSE IF t = "not" THEN
        <<"not", subst_scoped(e[2], var, value)>>
    ELSE IF t \in {"and", "or"} THEN
        <<t, subst_scoped(e[2], var, value), subst_scoped(e[3], var, value)>>
    ELSE IF t \in {"forall", "exists"} THEN
        IF e[2] = var THEN e ELSE <<t, e[2], subst_scoped(e[3], var, value)>>
    ELSE e

RECURSIVE subst(_, _, _)
subst(e, var, value) ==
    LET t == e[1] IN
    IF t = "pred" THEN
        <<"pred", e[2],
          [i \in 1..Len(e[3]) |-> IF e[3][i] = var THEN value ELSE e[3][i]]>>
    ELSE IF t = "not" THEN
        <<"not", subst(e[2], var, value)>>
    ELSE IF t \in {"and", "or"} THEN
        <<t, subst(e[2], var, value), subst(e[3], var, value)>>
    ELSE IF t \in {"forall", "exists"} THEN
        <<t, e[2], subst(e[3], var, value)>>
    ELSE e

\* skolemize that returns the substituted body of an existential as it is.
RECURSIVE skolemize_once(_, _, _)
skolemize_once(e, universals, c) ==
    LET t == e[1] IN
    IF t = "forall" THEN
        LET r == skolemize_once(e[3], universals \o <<e[2]>>, c)
        IN [e |-> <<"forall", e[2], r.e>>, c |-> r.c, log |-> r.log]
    ELSE IF t = "exists" THEN
        LET sk == IF universals # <<>> THEN new_func(universals, c)
                  ELSE new_const(c)
        IN [e |-> subst(e[3], e[2], sk.val), c |-> sk.c, log |-> <<sk.val>>]
    ELSE IF t \in {"and", "or"} THEN
        LET l == skolemize_once(e[2], universals, c)
            r == skolemize_once(e[3], universals, l.c)
        IN [e |-> <<t, l.e, r.e>>, c |-> r.c, log |-> l.log \o r.log]
    ELSE IF t = "not" THEN
        LET r == skolemize_once(e[2], universals, c)
        IN [e |-> <<"not", r.e>>, c |-> r.c, log |-> r.log]
    ELSE [e |-> e, c |-> c, log |-> <<>>]

\* skolemize that puts a universal variable in front of the in-scope list.
RECURSIVE skolemize_prepend(_, _, _)
skolemize_prepend(e, universals, c) ==
    LET t == e[1] IN
    IF t = "forall" THEN
        LET r == skolemize_prepend(e[3], <<e[2]>> \o universals, c)
        IN [e |-> <<"forall", e[2], r.e>>, c |-> r.c, log |-> r.log]
    ELSE IF t = "exists" THEN
        LET sk == IF universals # <<>> THEN new_func(universals, c)
                  ELSE new_const(c)
            r == skolemize_prepend(subst(e[3], e[2], sk.val), universals, sk.c)
        IN [e |-> r.e, c |-> r.c, log |-> <<sk.val>> \o r.log]
    ELSE IF t \in {"and", "or"} THEN
        LET l == skolemize_prepend(e[2], universals, c)
            r == skolemize_prepend(e[3], universals, l.c)
        IN [e |-> <<t, l.e, r.e>>, c |-> r.c, log |-> l.log \o r.log]
    ELSE IF t = "not" THEN
        LET r == skolemize_prepend(e[2], universals, c)
        IN [e |-> <<"not", r.e>>, c |-> r.c, log |-> r.log]
    ELSE [e |-> e, c |-> c, log |-> <<>>]

\* skolemize(expr, universals) run with the counter at c.  The value is the
\* returned expression e, the counter c after the call, and log, the strings
\* new_const / new_func returned during it, in call order.  Python evaluates
\* the left operand of a tuple display first, so the counter goes through
\* the left operand of an and/or and then through the right one.
RECURSIVE skolemize(_, _, _)
skolemize(e, universals, c) ==
    LET t == e[1] IN
    IF t = "forall" THEN
        LET r == skolemize(e[3], universals \o <<e[2]>>, c)
        IN [e |-> <<"forall", e[2], r.e>>, c |-> r.c, log |-> r.log]
    ELSE IF t = "exists" THEN
        LET sk == IF universals # <<>> THEN new_func(universals, c)
                  ELSE new_const(c)
            r == skolemize(subst(e[3], e[2], sk.val), universals, sk.c)
        IN [e |-> r.e, c |-> r.c, log |-> <<sk.val>> \o r.log]
    ELSE IF t \in {"and", "or"} THEN
        LET l == skolemize(e[2], universals, c)
            r == skolemize(e[3], universals, l.c)
        IN [e |-> <<t, l.e, r.e>>, c |-> r.c, log |-> l.log \o r.log]
    ELSE IF t = "not" THEN
        LET r == skolemize(e[2], universals, c)
        IN [e |-> <<"not", r.e>>, c |-> r.c, log |-> r.log]
    ELSE [e |-> e, c |-> c, log |-> <<>>]

\* drop_forall that strips one quantifier only.
drop_forall_one(e) ==
    IF e[1] = "forall" THEN e[3] ELSE e

RECURSIVE drop_forall(_)
drop_forall(e) ==
    IF e[1] = "forall" THEN drop_forall(e[3]) ELSE e

\* distribute without the case of a conjunction on the right.
RECURSIVE distribute_left(_)
distribute_left(e) ==
    LET t == e[1] IN
    IF t = "and" THEN <<"and", distribute_left(e[2]), distribute_left(e[3])>>
    ELSE IF t = "or" THEN
        LET A == distribute_left(e[2])
            B == distribute_left(e[3])
        IN IF A[1] = "and" THEN
               <<"and", distribute_left(<<"or", A[2], B>>),
                        distribute_left(<<"or", A[3], B>>)>>
           ELSE <<"or", A, B>>
    ELSE e

RECURSIVE distribute(_)
distribute(e) ==
    LET t == e[1] IN
    IF t = "and" THEN <<"and", distribute(e[2]), distribute(e[3])>>
    ELSE IF t = "or" THEN
        LET A == distribute(e[2])
            B == distribute(e[3])
        IN IF A[1] = "and" THEN
               <<"and", distribute(<<"or", A[2], B>>),
                        distribute(<<"or", A[3], B>>)>>
           ELSE IF B[1] = "and" THEN
               <<"and", distribute(<<"or", A, B[2]>>),
                        distribute(<<"or", A, B[3]>>)>>
           ELSE <<"or", A, B>>
    ELSE e

\* to_cnf(expr) run with the counter at c: the five stages in the order of
\* lines 215-223.  The value is that of skolemize, with e the returned CNF.
to_cnf(e, c) ==
    LET a == remove_implications(e)
        b == nnf(a)
        s == skolemize(b, <<>>, c)
        d == drop_forall(s.e)
    IN [e |-> distribute(d), c |-> s.c, log |-> s.log]

---------------------------------------------------------------------------
(* Input expressions *)

VarX == <<"x">>
VarY == <<"y">>
VarZ == <<"z">>

Px == pred1("P", VarX)
Qy == pred1("Q", VarY)
Rxy == pred2("R", VarX, VarY)

\* The expression the program itself converts (lines 232-243).
Example ==
    <<"forall", VarX,
      <<"implies", Px, <<"exists", VarY, <<"and", Qy, Rxy>>>>>>>>

Quantifiers == {"forall", "exists"}
Connectives == {"and", "or", "implies", "iff"}

\* A grammar g of expressions: the leaves, whether negation is used, the
\* quantifiers, the variables they bind, and the binary connectives.
\* Node(e, L, g): e is one node of g over operands taken from the layers L,
\* where L[k+1] holds the expressions with exactly k nodes above the leaves,
\* so that e has exactly Len(L) of them.
Node(e, L, g) ==
    LET n == Len(L) IN
    \/ g.neg /\ \E f \in L[n] : e = <<"not", f>>
    \/ \E q \in g.quants, v \in g.vars, f \in L[n] : e = <<q, v, f>>
    \/ \E i \in 0..(n - 1) :
           \E b \in g.bins, l \in L[i + 1], r \in L[n - i] : e = <<b, l, r>>

\* The layer after L, as a set.
Grow(L, g) ==
    LET n == Len(L) IN
    (IF g.neg THEN {<<"not", f>> : f \in L[n]} ELSE {})
    \cup {<<q, v, f>> : q \in g.quants, v \in g.vars, f \in L[n]}
    \cup UNION {{<<b, l, r>> : b \in g.bins, l \in L[i + 1], r \in L[n - i]}
                : i \in 0..(n - 1)}

\* The layers 0..n of g.
RECURSIVE Layers(_, _)
Layers(n, g) ==
    IF n = 0 THEN <<g.leaves>>
    ELSE LET L == Layers(n - 1, g) IN Append(L, Grow(L, g))

\* e is an expression of g with at most Len(L) nodes above the leaves.
Built(e, L, g) ==
    \/ \E k \in 1..Len(L) : e \in L[k]
    \/ Node(e, L, g)

MaxNodes == 3

\* What to_cnf and nnf are given: every node kind, one bound variable.
FullGrammar ==
    [leaves |-> {Px, Qy}, neg |-> TRUE, quants |-> Quantifiers,
     vars |-> {VarX}, bins |-> Connectives]

FullLayers == Layers(MaxNodes - 1, FullGrammar)

---------------------------------------------------------------------------
(* to_cnf, statement by statement (lines 213-225).  The print calls read   *)
(* expr and change nothing.                                                *)

Init ==
    /\ pc = "start"
    /\ \/ orig = Example
       \/ Built(orig, FullLayers, FullGrammar)
    /\ prev = orig
    /\ expr = orig
    /\ arg = <<>>
    /\ counter = 0
    /\ names = <<>>

\* line 215
RemoveImplications ==
    /\ pc = "start"
    /\ pc' = "noimp"
    /\ prev' = expr
    /\ expr' = remove_implications(expr)
    /\ UNCHANGED <<orig, arg, counter, names>>

\* line 217
Nnf ==
    /\ pc = "noimp"
    /\ pc' = "nnf"
    /\ prev' = expr
    /\ expr' = nnf(expr)
    /\ UNCHANGED <<orig, arg, counter, names>>

\* line 219
Skolemize ==
    /\ pc = "nnf"
    /\ pc' = "sk"
    /\ prev' = expr
    /\ LET r == skolemize(expr, <<>>, counter)
       IN /\ expr' = r.e
          /\ counter' = r.c
          /\ names' = names \o r.log
    /\ UNCHANGED <<orig, arg>>

\* line 221
DropForall ==
    /\ pc = "sk"
    /\ pc' = "drop"
    /\ prev' = expr
    /\ expr' = drop_forall(expr)
    /\ UNCHANGED <<orig, arg, counter, names>>

\* line 223
Distribute ==
    /\ pc = "drop"
    /\ pc' = "cnf"
    /\ prev' = expr
    /\ expr' = distribute(expr)
    /\ UNCHANGED <<orig, arg, counter, names>>

Next ==
    \/ RemoveImplications
    \/ Nnf
    \/ Skolemize
    \/ DropForall
    \/ Distribute

Spec == Init /\ [][Next]_vars

---------------------------------------------------------------------------
(* Shapes of expressions, for the properties below *)

\* Some node of e has a tag in T.
RECURSIVE Has(_, _)
Has(e, T) ==
    \/ e[1] \in T
    \/ e[1] = "not" /\ Has(e[2], T)
    \/ e[1] \in Quantifiers /\ Has(e[3], T)
    \/ e[1] \in Connectives /\ (Has(e[2], T) \/ Has(e[3], T))

NoImp(e) == ~Has(e, {"implies", "iff"})
NoForall(e) == ~Has(e, {"forall"})
NoExists(e) == ~Has(e, {"exists"})
QuantifierFree(e) == ~Has(e, Quantifiers)

\* Every negation of e is directly over a predicate.
RECURSIVE NegOnPred(_)
NegOnPred(e) ==
    IF e[1] = "not" THEN e[2][1] = "pred"
    ELSE IF e[1] \in Quantifiers THEN NegOnPred(e[3])
    ELSE IF e[1] \in Connectives THEN NegOnPred(e[2]) /\ NegOnPred(e[3])
    ELSE TRUE

\* e is a predicate or a negated predicate.
IsLiteral(e) ==
    \/ e[1] = "pred"
    \/ e[1] = "not" /\ e[2][1] = "pred"

\* e is built from and, or and literals only.
RECURSIVE LitTree(_)
LitTree(e) ==
    IF e[1] \in {"and", "or"} THEN LitTree(e[2]) /\ LitTree(e[3])
    ELSE IsLiteral(e)

\* e is a disjunction tree of literals: no and-node anywhere in it.
RECURSIVE IsClause(_)
IsClause(e) ==
    IF e[1] = "or" THEN IsClause(e[2]) /\ IsClause(e[3]) ELSE IsLiteral(e)

\* e is a conjunction tree of disjunction trees of literals.
RECURSIVE IsCnf(_)
IsCnf(e) ==
    IF e[1] = "and" THEN IsCnf(e[2]) /\ IsCnf(e[3]) ELSE IsClause(e)

\* The quantifiers of e lead it: none occurs beneath a binary connective.
RECURSIVE QuantifiersLead(_)
QuantifiersLead(e) ==
    IF e[1] \in Quantifiers THEN QuantifiersLead(e[3])
    ELSE IF e[1] = "not" THEN QuantifiersLead(e[2])
    ELSE QuantifierFree(e)

\* The truth value of a quantifier-free e when exactly the predicates of V
\* are true.
RECURSIVE Eval(_, _)
Eval(e, V) ==
    CASE e[1] = "pred" -> e \in V
      [] e[1] = "not" -> ~Eval(e[2], V)
      [] e[1] = "and" -> Eval(e[2], V) /\ Eval(e[3], V)
      [] e[1] = "or" -> Eval(e[2], V) \/ Eval(e[3], V)
      [] e[1] = "implies" -> Eval(e[2], V) => Eval(e[3], V)
      [] e[1] = "iff" -> Eval(e[2], V) <=> Eval(e[3], V)

---------------------------------------------------------------------------
(* Properties of to_cnf's stages, under Spec *)

\* C1 as stated: after the drop_forall stage of to_cnf no forall node is
\* left anywhere in the expression, whatever the input.
C1_NoForallAfterDrop ==
    pc = "drop" => NoForall(expr)

\* C1, amended: when no quantifier of the input occurs beneath and, or,
\* implies or iff, the expression after the drop_forall stage of to_cnf
\* has no forall node anywhere.
C1_NoForallAfterDropOfLeading ==
    (pc = "drop" /\ QuantifiersLead(orig)) => NoForall(expr)

C1_Witness ==
    /\ pc = "drop"
    /\ QuantifiersLead(orig)
    /\ prev[1] = "forall"
    /\ prev[3][1] = "forall"
    /\ NoForall(expr)

\* C2: distribute of an expression built from and, or and literals is a
\* conjunction tree of disjunction trees of literals: no and-node is below
\* an or-node.
C2_DistributeGivesCnf ==
    (pc = "cnf" /\ LitTree(prev)) => IsCnf(expr)

C2_Witness ==
    /\ pc = "cnf"
    /\ LitTree(prev)
    /\ prev[1] = "or"
    /\ prev[2][1] = "and"
    /\ prev[3][1] = "and"
    /\ expr # prev
    /\ IsCnf(expr)

\* C3: for a quantifier-free input, to_cnf's result is
\* distribute(nnf(remove_implications(input))) and has the truth value of
\* the input under every assignment to the predicates.
C3_MeaningPreserved ==
    (pc = "cnf" /\ QuantifierFree(orig)) =>
        /\ expr = distribute(nnf(remove_implications(orig)))
        /\ \A V \in SUBSET FullGrammar.leaves : Eval(expr, V) = Eval(orig, V)

C3_Witness ==
    /\ pc = "cnf"
    /\ QuantifierFree(orig)
    /\ orig[1] = "iff"
    /\ Has(orig[2], {"implies"})
    /\ expr # orig

\* C5: nnf of an expression without implies and iff has its negations
\* directly over predicates only.
C5_NegationsOnPredicates ==
    (pc = "nnf" /\ NoImp(prev)) => NegOnPred(expr)

C5_Witness ==
    /\ pc = "nnf"
    /\ NoImp(prev)
    /\ prev[1] = "not"
    /\ prev[2][1] = "and"
    /\ prev[2][2][1] = "forall"
    /\ NegOnPred(expr)

\* C9: remove_implications leaves no implies node and no iff node.
C9_NoImplicationLeft ==
    pc = "noimp" => NoImp(expr)

C9_Witness ==
    /\ pc = "noimp"
    /\ prev[1] = "not"
    /\ Has(prev, {"implies"})
    /\ Has(prev, {"iff"})
    /\ NoImp(expr)

---------------------------------------------------------------------------
(* nnf called on an expression, and again on its value *)

CallNnf ==
    /\ pc = "start"
    /\ pc' = "nnf1"
    /\ prev' = expr
    /\ expr' = nnf(expr)
    /\ UNCHANGED <<orig, arg, counter, names>>

CallNnfAgain ==
    /\ pc = "nnf1"
    /\ pc' = "nnf2"
    /\ prev' = expr
    /\ expr' = nnf(expr)
    /\ UNCHANGED <<orig, arg, counter, names>>

NextNnf ==
    \/ CallNnf
    \/ CallNnfAgain

SpecNnf == Init /\ [][NextNnf]_vars

\* C8: nnf is idempotent: nnf(nnf(F)) is nnf(F), for F of any node kinds.
C8_NnfIdempotent ==
    pc = "nnf2" => expr = prev

C8_Witness ==
    /\ pc = "nnf2"
    /\ orig[1] = "not"
    /\ orig[2][1] \in {"and", "or"}
    /\ Has(orig, {"implies", "iff"})
    /\ prev # orig
    /\ expr = prev

---------------------------------------------------------------------------
(* skolemize called on an expression with a list of universals in scope *)

SkNodes == 3

\* What skolemize is given: pred, not, and, or, forall, exists, over two
\* bound variables.
SkGrammar ==
    [leaves |-> {Px, Rxy}, neg |-> TRUE, quants |-> Quantifiers,
     vars |-> {VarX, VarY}, bins |-> {"and", "or"}]

SkLayers == Layers(SkNodes - 1, SkGrammar)

\* The universals argument: the default, or a list of the caller's.
StartUniversals == {<<>>, <<VarZ>>}

InitSk ==
    /\ pc = "start"
    /\ Built(orig, SkLayers, SkGrammar)
    /\ prev = orig
    /\ expr = orig
    /\ arg = <<>>
    /\ counter = 0
    /\ names = <<>>

CallSkolemize ==
    /\ pc = "start"
    /\ pc' = "sk"
    /\ prev' = expr
    /\ \E U \in StartUniversals :
         LET r == skolemize(expr, U, counter)
         IN /\ arg' = U
            /\ expr' = r.e
            /\ counter' = r.c
            /\ names' = names \o r.log
    /\ UNCHANGED orig

NextSk == CallSkolemize

SpecSk == InitSk /\ [][NextSk]_vars

\* C6: skolemize leaves no exists node, whatever the nesting of the
\* expression and the universals in scope at the call.
C6_NoExistsLeft ==
    pc = "sk" => NoExists(expr)

C6_Witness ==
    /\ pc = "sk"
    /\ arg # <<>>
    /\ prev[1] = "not"
    /\ prev[2][1] = "exists"
    /\ Has(prev[2][3], {"exists"})
    /\ NoExists(expr)

\* The exists nodes of e in the order skolemize meets them (a node before
\* its operands, the left operand before the right), each as the list of the
\* variables of the forall nodes on the path from the root to it, outermost
\* first, after the universals U in scope at the root.
RECURSIVE ExistsScopes(_, _)
ExistsScopes(e, U) ==
    IF e[1] = "forall" THEN ExistsScopes(e[3], U \o <<e[2]>>)
    ELSE IF e[1] = "exists" THEN <<U>> \o ExistsScopes(e[3], U)
    ELSE IF e[1] = "not" THEN ExistsScopes(e[2], U)
    ELSE IF e[1] \in {"and", "or"} THEN
        ExistsScopes(e[2], U) \o ExistsScopes(e[3], U)
    ELSE <<>>

\* The Skolem term of the exists node whose scope is U, with number n.
SkolemTerm(U, n) ==
    IF U = <<>> THEN <<"c">> \o str(n)
    ELSE <<"f">> \o str(n) \o <<"(">> \o join(U) \o <<")">>

\* to_cnf's value for Example, with f0 the Skolem function.
ExampleCnf ==
    LET f == <<"f", "0", "(", "x", ")">> IN
    <<"and", <<"or", <<"not", Px>>, pred1("Q", f)>>,
             <<"or", <<"not", Px>>, pred2("R", VarX, f)>>>>

\* C10: skolemize gives each exists node a Skolem term made from the forall
\* nodes on the path from the root to it: a constant when there is none,
\* else a function of exactly their variables, outermost first; a forall in
\* a sibling branch adds nothing.  to_cnf of Example is
\* and(or(not P(x), Q(f0(x))), or(not P(x), R(x, f0(x)))).
C10_SkolemTermsFollowPath ==
    /\ pc = "sk" =>
         LET S == ExistsScopes(prev, arg)
         IN /\ Len(names) = Len(S)
            /\ \A i \in 1..Len(S) : names[i] = SkolemTerm(S[i], i - 1)
    /\ to_cnf(Example, 0).e = ExampleCnf

C10_Witness ==
    /\ pc = "sk"
    /\ arg = <<>>
    /\ prev[1] = "forall"
    /\ prev[2] = VarX
    /\ prev[3][1] = "forall"
    /\ prev[3][2] = VarY
    /\ prev[3][3][1] = "exists"
    /\ names = <<<<"f", "0", "(", "x", ",", "y", ")">>>>

---------------------------------------------------------------------------
(* subst called on an expression, a variable and a term *)

SubstNodes == 2

\* What subst is given: every node kind, over two bound variables.
SubstGrammar ==
    [leaves |-> {Px, Rxy}, neg |-> TRUE, quants |-> Quantifiers,
     vars |-> {VarX, VarY}, bins |-> Connectives]

SubstLayers == Layers(SubstNodes - 1, SubstGrammar)

\* The terms substituted: a Skolem constant, a Skolem function, a variable.
SubstTerms == {new_const(0).val, new_func(<<VarX>>, 1).val, VarY}

InitSubst ==
    /\ pc = "start"
    /\ Built(orig, SubstLayers, SubstGrammar)
    /\ prev = orig
    /\ expr = orig
    /\ arg = <<>>
    /\ counter = 0
    /\ names = <<>>

CallSubst ==
    /\ pc = "start"
    /\ pc' = "subst"
    /\ prev' = expr
    /\ \E v \in {VarX, VarY}, t \in SubstTerms :
         /\ arg' = <<v, t>>
         /\ expr' = subst(expr, v, t)
    /\ UNCHANGED <<orig, counter, names>>

NextSubst == CallSubst

SpecSubst == InitSubst /\ [][NextSubst]_vars

\* G is F with t at the predicate argument positions where F has v, and is
\* F everywhere else: the same nodes, predicate names, quantifier variables
\* and argument-list lengths.
RECURSIVE SubstOf(_, _, _, _)
SubstOf(F, G, v, t) ==
    /\ Len(G) = Len(F)
    /\ G[1] = F[1]
    /\ CASE F[1] = "pred" ->
              /\ G[2] = F[2]
              /\ Len(G[3]) = Len(F[3])
              /\ \A i \in 1..Len(F[3]) :
                     G[3][i] = IF F[3][i] = v THEN t ELSE F[3][i]
         [] F[1] = "not" -> SubstOf(F[2], G[2], v, t)
         [] F[1] \in Quantifiers ->
              G[2] = F[2] /\ SubstOf(F[3], G[3], v, t)
         [] F[1] \in Connectives ->
              SubstOf(F[2], G[2], v, t) /\ SubstOf(F[3], G[3], v, t)

\* C7 as stated: for every expression F, subst(F, v, t) is F with t at the
\* predicate argument positions that held v, also under a quantifier that
\* binds v again, and nothing else changed.
C7_SubstEverywhere ==
    pc = "subst" => SubstOf(prev, expr, arg[1], arg[2])

\* C7, amended: for every expression F without implies and iff nodes,
\* subst(F, v, t) is F with t at the predicate argument positions that held
\* v, also under a quantifier that binds v again, and nothing else changed.
C7_SubstEverywhereNoImp ==
    (pc = "subst" /\ NoImp(prev)) => SubstOf(prev, expr, arg[1], arg[2])

C7_Witness ==
    /\ pc = "subst"
    /\ NoImp(prev)
    /\ prev[1] = "and"
    /\ prev[3][1] \in Quantifiers
    /\ prev[3][2] = arg[1]
    /\ prev[3][3] = Rxy
    /\ expr[3][3] # Rxy
    /\ SubstOf(prev, expr, arg[1], arg[2])

---------------------------------------------------------------------------
(* The generator over the life of the process: calls of new_const and      *)
(* new_func, and whole runs of to_cnf, in any order.                       *)

MaxCalls == 11

\* The argument list given to new_func.
FuncArgs == {<<VarX>>}

\* Expressions given to to_cnf: the example, and one with a Skolem
\* constant and a Skolem function.
RunInputs ==
    {Example,
     <<"and", <<"exists", VarX, Px>>,
              <<"forall", VarX, <<"exists", VarY, Rxy>>>>>>}

InitGen ==
    /\ pc = "main"
    /\ orig = Example
    /\ prev = Example
    /\ expr = Example
    /\ arg = <<>>
    /\ counter = 0
    /\ names = <<>>

CallNewConst ==
    /\ Len(names) < MaxCalls
    /\ LET r == new_const(counter)
       IN /\ counter' = r.c
          /\ names' = Append(names, r.val)
    /\ pc' = "new_const"
    /\ UNCHANGED <<orig, prev, expr, arg>>

CallNewFunc ==
    /\ Len(names) < MaxCalls
    /\ \E a \in FuncArgs :
         LET r == new_func(a, counter)
         IN /\ arg' = a
            /\ counter' = r.c
            /\ names' = Append(names, r.val)
    /\ pc' = "new_func"
    /\ UNCHANGED <<orig, prev, expr>>

RunToCnf ==
    /\ Len(names) < MaxCalls
    /\ \E e \in RunInputs :
         LET r == to_cnf(e, counter)
         IN /\ orig' = e
            /\ prev' = e
            /\ expr' = r.e
            /\ counter' = r.c
            /\ names' = names \o r.log
    /\ pc' = "to_cnf"
    /\ arg' = <<>>

NextGen ==
    \/ CallNewConst
    \/ CallNewFunc
    \/ RunToCnf

SpecGen == InitGen /\ [][NextGen]_vars

\* C4: the strings new_const and new_func return in one process, runs of
\* to_cnf included, are pairwise distinct, and the counter goes up by one
\* with each of them from 0, never back.
C4_NamesDistinct ==
    /\ counter = Len(names)
    /\ \A i, j \in 1..Len(names) : i # j => names[i] # names[j]

C4_Witness ==
    /\ pc = "to_cnf"
    /\ Len(names) >= MaxCalls
    /\ counter > 10
    /\ \E i, j \in 1..Len(names) :
          /\ i < j
          /\ names[i][1] = "c"
          /\ names[j][1] = "c"
    /\ \E i \in 1..Len(names) : names[i][1] = "f"

====
